---- MODULE Spec2Model ----
(***************************************************************************)
(* Firmware-update orchestration of cc_dey (library/src/cc_firmware_update.c) *)
(* as a state machine: the four connector callbacks (request, data, cancel, *)
(* reset), the manifest pipeline they run (parse, space check, fragment     *)
(* lookup, assembly, integrity check, install) and the on-the-fly streaming *)
(* bridge with its engine thread (pull callback, completion callback).      *)
(***************************************************************************)
EXTENDS Integers, Sequences, FiniteSets, TLC

(***************************************************************************)
(* Bounds of the model.                                                     *)
(***************************************************************************)
\* Largest fragment count a manifest of the model declares.
MaxFrags == 2
\* Largest total size (bytes) a manifest of the model declares.
MaxSize == 2
\* Modulus of the model's checksum (stands for the 2^32 CRC32 values).
CrcMod == 3
\* Largest free-space figure (bytes) statvfs reports in the model.
MaxAvail == 2
\* Largest number of data calls the connector makes in one session.
MaxChunks == 3
\* Iterations of the final-chunk poll loop (100 in the code, scaled down).
PollLimit == 2
\* Requests the connector makes in a behaviour of the whole system.
MaxSessions == 2
\* Requests the connector makes in a behaviour of the file-based pipeline.
MaxSessionsMf == 1

(***************************************************************************)
(* Values.                                                                  *)
(***************************************************************************)
\* Decompressed contents a fragment of the model may hold.
FragContents == {<<>>, <<0>>, <<1>>}

\* A fragment file <name><i>.zip: absent, an archive that cannot be
\* decompressed (no such entry, bad archive), or an archive holding data.
AbsentFrag == [k |-> "absent", data |-> <<>>]

CorruptFrag == [k |-> "corrupt", data |-> <<>>]

FragFiles == {AbsentFrag, CorruptFrag} \cup {[k |-> "ok", data |-> c] : c \in FragContents}

FragIdx == 0 .. (MaxFrags - 1)

\* A regular file: whether it exists and its bytes.
NoFile == [ex |-> FALSE, data |-> <<>>]

File(d) == [ex |-> TRUE, data |-> d]

\* EXIT_SUCCESS / EXIT_FAILURE, SUCCESS / FAILURE (RECOVERY_STATUS).
EXIT_SUCCESS == "EXIT_SUCCESS"

EXIT_FAILURE == "EXIT_FAILURE"

CC_FW_TARGET_SWU == "CC_FW_TARGET_SWU"

CC_FW_TARGET_MANIFEST == "CC_FW_TARGET_MANIFEST"

Targets == {CC_FW_TARGET_SWU, CC_FW_TARGET_MANIFEST}

CCAPI_FW_REQUEST_ERROR_NONE == "CCAPI_FW_REQUEST_ERROR_NONE"

CCAPI_FW_REQUEST_ERROR_ENCOUNTERED_ERROR == "CCAPI_FW_REQUEST_ERROR_ENCOUNTERED_ERROR"

CCAPI_FW_REQUEST_ERROR_DOWNLOAD_INVALID_SIZE == "CCAPI_FW_REQUEST_ERROR_DOWNLOAD_INVALID_SIZE"

CCAPI_FW_DATA_ERROR_NONE == "CCAPI_FW_DATA_ERROR_NONE"

CCAPI_FW_DATA_ERROR_INVALID_DATA == "CCAPI_FW_DATA_ERROR_INVALID_DATA"

(***************************************************************************)
(* crc32file(): the checksum of a file's bytes.  A position-weighted sum   *)
(* modulo CrcMod: different contents may collide, equal contents agree.     *)
(***************************************************************************)
RECURSIVE Crc32(_)
Crc32(s) == IF s = <<>> THEN 0 ELSE (2 * Crc32(Tail(s)) + Head(s) + 1) % CrcMod

(***************************************************************************)
(* The manifest file as downloaded: which keys it holds and their values.   *)
(* The checksum is text: empty, not a number, or a decimal number.          *)
(***************************************************************************)
MANIFEST_PROP_SIZE == "size"

MANIFEST_PROP_FRAGMENTS == "fragments"

MANIFEST_PROP_NAME == "name"

MANIFEST_PROP_CHECKSUM == "checksum"

MANIFEST_PROP_SRC_DIR == "src_dir"

ManifestKeys == {MANIFEST_PROP_SIZE, MANIFEST_PROP_FRAGMENTS, MANIFEST_PROP_NAME, MANIFEST_PROP_CHECKSUM, MANIFEST_PROP_SRC_DIR}

ChecksumTexts == {[txt |-> "empty", n |-> 0], [txt |-> "junk", n |-> 0]} \cup {[txt |-> "dec", n |-> c] : c \in 0 .. (CrcMod - 1)}

\* strtoul(text, NULL, 10): the number a decimal text denotes, 0 for text
\* that starts with no digit.
strtoul(t) == IF t.txt = "dec" THEN t.n ELSE 0

\* src_dir values: empty, a directory that is not readable, the readable
\* directory that holds the fragments.
SrcDirs == {"", "nodir", "frags"}

access(dir) == IF dir = "frags" THEN 0 ELSE -1

\* A key the file does not hold carries the value libconfuse reports for an
\* unset CFGF_NODEFAULT option (0, NULL), written here as 0 / "" / empty.
UnsetKey(m, k) ==
  IF k = MANIFEST_PROP_SIZE THEN [m EXCEPT !.keys = @ \ {k}, !.size = 0]
  ELSE IF k = MANIFEST_PROP_FRAGMENTS THEN [m EXCEPT !.keys = @ \ {k}, !.fragments = 0]
  ELSE IF k = MANIFEST_PROP_NAME THEN [m EXCEPT !.keys = @ \ {k}, !.name = ""]
  ELSE IF k = MANIFEST_PROP_CHECKSUM THEN [m EXCEPT !.keys = @ \ {k}, !.checksum = [txt |-> "empty", n |-> 0]]
  ELSE [m EXCEPT !.keys = @ \ {k}, !.src_dir = ""]

\* Files that set every key to a value the validation accepts.
ValidManifestFiles == {[readable |-> TRUE, keys |-> ManifestKeys, size |-> s, fragments |-> f, name |-> "img", checksum |-> c, src_dir |-> "frags"] : s \in 1 .. MaxSize, f \in 1 .. MaxFrags, c \in {t \in ChecksumTexts : t.txt # "empty"}}

SampleManifestFile == [readable |-> TRUE, keys |-> ManifestKeys, size |-> 1, fragments |-> 1, name |-> "img", checksum |-> [txt |-> "dec", n |-> 0], src_dir |-> "frags"]

\* Files with one defect: a key left out, a value the validation refuses, or
\* a file that cannot be read.
DefectiveManifestFiles == {UnsetKey(SampleManifestFile, k) : k \in ManifestKeys} \cup {[SampleManifestFile EXCEPT !.size = 0], [SampleManifestFile EXCEPT !.fragments = 0], [SampleManifestFile EXCEPT !.name = ""], [SampleManifestFile EXCEPT !.checksum = [txt |-> "empty", n |-> 0]], [SampleManifestFile EXCEPT !.src_dir = ""], [SampleManifestFile EXCEPT !.src_dir = "nodir"], [UnsetKey(UnsetKey(UnsetKey(UnsetKey(UnsetKey(SampleManifestFile, MANIFEST_PROP_SIZE), MANIFEST_PROP_FRAGMENTS), MANIFEST_PROP_NAME), MANIFEST_PROP_CHECKSUM), MANIFEST_PROP_SRC_DIR) EXCEPT !.readable = FALSE]}

ManifestFiles == ValidManifestFiles \cup DefectiveManifestFiles

\* No manifest file: nothing at the path mf_parse_file() is given.
NoManifestFile == [readable |-> FALSE, keys |-> {}, size |-> 0, fragments |-> 0, name |-> "", checksum |-> [txt |-> "empty", n |-> 0], src_dir |-> ""]

\* mf_fw_t as zero-initialised by "mf_fw_info_t fw_info = {0}".
ZeroManifest == [fw_total_size |-> 0, n_fragments |-> 0, fragment_name |-> "", fw_checksum |-> 0, fragments_dir |-> ""]

check_mf_size(m) == IF m.size <= 0 THEN -1 ELSE 0

check_mf_fragments(m) == IF m.fragments <= 0 THEN -1 ELSE 0

check_mf_name(m) == IF m.name = "" THEN -1 ELSE 0

check_mf_checksum(m) == IF m.checksum.txt = "empty" THEN -1 ELSE 0

check_mf_src_dir(m) == IF m.src_dir = "" \/ access(m.src_dir) # 0 THEN -1 ELSE 0

\* cfg_parse(): the validation callback of a key runs only when the file
\* sets that key.
cfg_parse(m) == IF \/ (MANIFEST_PROP_SIZE \in m.keys /\ check_mf_size(m) # 0) \/ (MANIFEST_PROP_FRAGMENTS \in m.keys /\ check_mf_fragments(m) # 0) \/ (MANIFEST_PROP_NAME \in m.keys /\ check_mf_name(m) # 0) \/ (MANIFEST_PROP_CHECKSUM \in m.keys /\ check_mf_checksum(m) # 0) \/ (MANIFEST_PROP_SRC_DIR \in m.keys /\ check_mf_src_dir(m) # 0) THEN "CFG_PARSE_ERROR" ELSE "CFG_SUCCESS"

\* mf_parse_file(): error is 0 or -1; crash is TRUE when the fill step
\* hands the NULL of an unset string key to strtoul() or strdup().
mf_parse_file(m) ==
  IF ~m.readable THEN [error |-> -1, crash |-> FALSE, manifest |-> ZeroManifest]
  ELSE IF cfg_parse(m) # "CFG_SUCCESS" THEN [error |-> -1, crash |-> FALSE, manifest |-> ZeroManifest]
  ELSE IF {MANIFEST_PROP_CHECKSUM, MANIFEST_PROP_NAME, MANIFEST_PROP_SRC_DIR} \subseteq m.keys
       THEN [error |-> 0, crash |-> FALSE, manifest |-> [fw_total_size |-> m.size, n_fragments |-> m.fragments, fragment_name |-> m.name, fw_checksum |-> strtoul(m.checksum), fragments_dir |-> m.src_dir]]
       ELSE [error |-> 0, crash |-> TRUE, manifest |-> ZeroManifest]

(***************************************************************************)
(* Faults of the environment during one run of mf_generate_fw(): at most    *)
(* one allocation or file operation fails, p names it (i: the fragment      *)
(* whose fwrite fails).                                                     *)
(***************************************************************************)
NoFail == [p |-> "none", i |-> 0]

FailPoints == {NoFail} \cup {[p |-> x, i |-> 0] : x \in {"calloc_path", "calloc_fragments", "fopen", "fsync", "crc32file", "calloc_tmp"}} \cup {[p |-> "fwrite", i |-> j] : j \in FragIdx}

\* get_available_space(): f_bsize * f_bfree, 0 when statvfs fails.
Avails == 0 .. MaxAvail

(***************************************************************************)
(* mf_get_fragments(): the number of fragments found, 0 when the list       *)
(* cannot be allocated or fragment i of 0..n-1 is missing (the list is then *)
(* freed, fragments = NULL, n_fragments = 0).                               *)
(***************************************************************************)
\* A lookup that does not test whether fragment i exists.
mf_get_fragments_loop_unchecked(i, n, fr) == n

RECURSIVE mf_get_fragments_loop(_, _, _)
mf_get_fragments_loop(i, n, fr) ==
  IF i >= n THEN n
  ELSE IF fr[i].k = "absent" THEN 0
  ELSE mf_get_fragments_loop(i + 1, n, fr)

\* The faults that can occur in a run over manifest m and fragment files fr:
\* with a fragment missing the run ends at the lookup, and fwrite is called
\* for the fragments of the set only.
FailPointsOf(m, fr) ==
  IF mf_get_fragments_loop(0, m.n_fragments, fr) = 0 THEN {NoFail, [p |-> "calloc_path", i |-> 0]}
  ELSE {f \in FailPoints : f.p = "fwrite" => f.i < m.n_fragments}

mf_get_fragments(manifest, fr, fail) ==
  IF fail.p = "calloc_fragments" THEN 0
  ELSE mf_get_fragments_loop(0, manifest.n_fragments, fr)

(***************************************************************************)
(* mf_assemble_fragment(): decompress one fragment and append it to the     *)
(* destination.  -1 when the archive cannot be opened or read, or when the  *)
(* write fails.                                                             *)
(***************************************************************************)
mf_assemble_fragment(frag, out, fwrite_fails) ==
  IF frag.k # "ok" THEN [error |-> -1, out |-> out]
  ELSE IF fwrite_fails /\ frag.data # <<>> THEN [error |-> -1, out |-> out]
  ELSE [error |-> 0, out |-> out \o frag.data]

\* An assembly loop that leaves the appended fragment in place.
remove_fragment_skipped(fr, i) == fr

\* remove(fragment.path) of the assembly loop.
remove_fragment(fr, i) == [fr EXCEPT ![i] = AbsentFrag]

\* A cleanup that leaves the fragments of the list in place.
mf_delete_fragments_skipped(fr, n_fragments) == fr

\* mf_delete_fragments(): remove every fragment of the list.
mf_delete_fragments(fr, n_fragments) == [i \in FragIdx |-> IF i < n_fragments THEN AbsentFrag ELSE fr[i]]

\* An assembly loop that goes on to the next fragment after a failed one.
RECURSIVE mf_assemble_loop_continue(_, _, _, _, _, _)
mf_assemble_loop_continue(i, n, fr, out, fail, log) ==
  IF i >= n THEN [error |-> IF \E j \in 1 .. Len(log) : log[j].op = "fail" THEN -1 ELSE 0, frags |-> fr, out |-> out, log |-> log]
  ELSE LET r == mf_assemble_fragment(fr[i], out, fail.p = "fwrite" /\ fail.i = i)
       IN IF r.error # 0
          THEN mf_assemble_loop_continue(i + 1, n, fr, r.out, fail, Append(log, [op |-> "fail", i |-> i]))
          ELSE mf_assemble_loop_continue(i + 1, n, remove_fragment(fr, i), r.out, fail, log \o <<[op |-> "append", i |-> i], [op |-> "remove", i |-> i]>>)

\* The loop of mf_assemble_fw_package(): fragments in index order, each
\* removed once appended; the first failure ends the loop.  log lists the
\* file operations in the order they happen.
RECURSIVE mf_assemble_loop(_, _, _, _, _, _)
mf_assemble_loop(i, n, fr, out, fail, log) ==
  IF i >= n THEN [error |-> 0, frags |-> fr, out |-> out, log |-> log]
  ELSE LET r == mf_assemble_fragment(fr[i], out, fail.p = "fwrite" /\ fail.i = i)
       IN IF r.error # 0
          THEN [error |-> -1, frags |-> fr, out |-> r.out, log |-> Append(log, [op |-> "fail", i |-> i])]
          ELSE mf_assemble_loop(i + 1, n, remove_fragment(fr, i), r.out, fail, log \o <<[op |-> "append", i |-> i], [op |-> "remove", i |-> i]>>)

\* "(size_t) st.st_size != fw_info->manifest.fw_total_size"
mf_size_mismatch(out, manifest) == Len(out) # manifest.fw_total_size

\* An assembly that takes any checksum for the manifest's.
mf_crc_mismatch_ignored(out, manifest) == FALSE

\* "crc32 != fw_info->manifest.fw_checksum"
mf_crc_mismatch(out, manifest) == Crc32(out) # manifest.fw_checksum

\* An error label that leaves the destination in place.
mf_remove_package_skipped(pk) == pk

\* The "error:" label of mf_assemble_fw_package(): remove(file_path).
mf_remove_package(pk) == NoFile

(***************************************************************************)
(* mf_assemble_fw_package().  opened: the destination was created; out: the *)
(* bytes written to it; pkg: the destination file when the call returns.    *)
(***************************************************************************)
mf_assemble_fw_package(manifest, n_fragments, fr, pk, fail) ==
  IF fail.p = "fopen"
  THEN [error |-> -1, frags |-> mf_delete_fragments(fr, n_fragments), pkg |-> pk, opened |-> FALSE, out |-> <<>>, log |-> <<>>]
  ELSE LET l == mf_assemble_loop(0, n_fragments, fr, <<>>, fail, <<>>)
           res(e, f, k) == [error |-> e, frags |-> f, pkg |-> k, opened |-> TRUE, out |-> l.out, log |-> l.log]
       IN IF l.error # 0 \/ fail.p = "fsync"
          THEN res(-1, mf_delete_fragments(l.frags, n_fragments), mf_remove_package(File(l.out)))
          ELSE IF mf_size_mismatch(l.out, manifest)
          THEN res(-1, l.frags, mf_remove_package(File(l.out)))
          ELSE IF fail.p = "crc32file"
          THEN res(-1, l.frags, mf_remove_package(File(l.out)))
          ELSE IF mf_crc_mismatch(l.out, manifest)
          THEN res(-1, l.frags, mf_remove_package(File(l.out)))
          ELSE res(0, l.frags, File(l.out))

(***************************************************************************)
(* fw_downloaded_path: NULL, a live buffer naming the downloaded file       *)
(* ("dl") or the assembled package ("pkg"), or a freed buffer the pointer   *)
(* still holds.                                                             *)
(***************************************************************************)
NullPath == [st |-> "null", file |-> "none"]

PathOf(f) == [st |-> "valid", file |-> f]

FreedPath(p) == [st |-> "freed", file |-> p.file]

PathStates == {NullPath} \cup {[st |-> s, file |-> f] : s \in {"valid", "freed"}, f \in {"dl", "pkg"}}

\* Result of an assembly that was not started.
NoAsm == [error |-> 0, frags |-> [i \in FragIdx |-> AbsentFrag], pkg |-> NoFile, opened |-> FALSE, out |-> <<>>, log |-> <<>>]

(***************************************************************************)
(* mf_generate_fw(): parse, space check, fragment lookup, assembly, and on  *)
(* success fw_downloaded_path is replaced by the package path.              *)
(* step: the step that ended the call.                                      *)
(***************************************************************************)
mf_generate_fw(mf, avail, fail, fr, pk, path) ==
  LET p == mf_parse_file(mf)
      m == p.manifest
      n == mf_get_fragments(m, fr, fail)
      a == mf_assemble_fw_package(m, n, fr, pk, fail)
      res(e, s, f, k, pa, nf, ac) == [error |-> e, crash |-> FALSE, step |-> s, frags |-> f, pkg |-> k, path |-> pa, manifest |-> m, n_fragments |-> nf, asm_called |-> ac, asm |-> IF ac THEN a ELSE NoAsm]
  IN IF p.crash THEN [res(-1, "parse", fr, pk, path, 0, FALSE) EXCEPT !.crash = TRUE]
     ELSE IF p.error # 0 THEN res(-1, "parse", fr, pk, path, 0, FALSE)
     ELSE IF avail = 0 THEN res(-1, "space_unknown", fr, pk, path, 0, FALSE)
     ELSE IF avail < m.fw_total_size THEN res(-1, "space", fr, pk, path, 0, FALSE)
     ELSE IF fail.p = "calloc_path" THEN res(-1, "path", fr, pk, path, 0, FALSE)
     ELSE IF n = 0 THEN res(-1, "fragments", fr, pk, path, 0, FALSE)
     ELSE IF a.error # 0 THEN res(-1, "assemble", a.frags, a.pkg, path, n, TRUE)
     ELSE IF fail.p = "calloc_tmp" THEN res(-1, "calloc_tmp", a.frags, a.pkg, path, n, TRUE)
     ELSE res(0, "done", a.frags, a.pkg, PathOf("pkg"), n, TRUE)

(***************************************************************************)
(* is_dual_boot_system(): the cached answer when there is one, else the     *)
(* outcome of "fw_printenv -n dualboot" (q = "fail": the command fails and  *)
(* nothing is cached).  The value is both returned and left in is_dual.     *)
(***************************************************************************)
Queries(cache) == IF cache # -1 THEN {"cached"} ELSE {"fail", "ok"}

\* A classification that runs the query on every call.
is_dual_boot_system_uncached(cache, hw, q) == IF q = "fail" THEN -1 ELSE IF hw THEN 1 ELSE 0

is_dual_boot_system(cache, hw, q) ==
  IF cache # -1 THEN cache
  ELSE IF q = "fail" THEN -1
  ELSE IF hw THEN 1 ELSE 0

\* The branch test of the four callbacks:
\* is_dual_boot_system() > 0 && cc_cfg->on_the_fly && target != CC_FW_TARGET_MANIFEST
otf_branch(dual, otf, target) == dual > 0 /\ otf /\ target # CC_FW_TARGET_MANIFEST

(***************************************************************************)
(* process_swu_package(): the installer run and the value returned.         *)
(* Dual boot: "update-firmware --no-reboot" through popen(); `out` is what  *)
(* the environment does: run is "popen_fails", "marker" (a line of the      *)
(* output holds the failure marker) or "clean", and exit is the status the  *)
(* updater ends with, which pclose() returns.  Otherwise update_firmware()  *)
(* of the recovery library: "nonzero" or "clean".                           *)
(***************************************************************************)
ExitStatuses == {0, 1}

NoInstall == [run |-> "none", exit |-> 0]

InstallOutcomes(dual) == IF dual > 0 THEN {[run |-> "popen_fails", exit |-> 0]} \cup {[run |-> r, exit |-> e] : r \in {"marker", "clean"}, e \in ExitStatuses} ELSE {[run |-> r, exit |-> 0] : r \in {"nonzero", "clean"}}

\* An installer call that hands every package to the recovery library.
process_swu_package_recovery_only(dual, out) ==
  [installer |-> "update_firmware", error |-> IF out.run \in {"nonzero", "marker"} THEN CCAPI_FW_DATA_ERROR_INVALID_DATA ELSE CCAPI_FW_DATA_ERROR_NONE]

\* An installer call that takes the updater's exit status for the result.
process_swu_package_exit_status(dual, out) ==
  IF dual > 0
  THEN IF out.run = "popen_fails" THEN [installer |-> "none", error |-> CCAPI_FW_DATA_ERROR_NONE]
       ELSE [installer |-> "update-firmware", error |-> IF out.exit # 0 THEN CCAPI_FW_DATA_ERROR_INVALID_DATA ELSE CCAPI_FW_DATA_ERROR_NONE]
  ELSE [installer |-> "update_firmware", error |-> IF out.run = "nonzero" THEN CCAPI_FW_DATA_ERROR_INVALID_DATA ELSE CCAPI_FW_DATA_ERROR_NONE]

process_swu_package(dual, out) ==
  IF dual > 0
  THEN IF out.run = "popen_fails" THEN [installer |-> "none", error |-> CCAPI_FW_DATA_ERROR_NONE]
       ELSE IF out.run = "marker" THEN [installer |-> "update-firmware", error |-> CCAPI_FW_DATA_ERROR_INVALID_DATA]
       ELSE [installer |-> "update-firmware", error |-> CCAPI_FW_DATA_ERROR_NONE]
  ELSE IF out.run = "nonzero" THEN [installer |-> "update_firmware", error |-> CCAPI_FW_DATA_ERROR_INVALID_DATA]
       ELSE [installer |-> "update_firmware", error |-> CCAPI_FW_DATA_ERROR_NONE]

(***************************************************************************)
(* The streaming bridge.                                                    *)
(***************************************************************************)
\* Chunks the connector delivers on the streaming path.
Chunks == {<<0>>, <<1>>, <<1, 0>>}

\* Bytes of otf_info.buffer the model keeps (FW_SWU_CHUNK_SIZE in the code,
\* scaled down to the longest chunk of the model).
BufLen == 2

\* memcpy(otf_info.buffer, data, size): the first size bytes are replaced.
memcpy(buffer, data) == [i \in 1 .. BufLen |-> IF i <= Len(data) THEN data[i] ELSE buffer[i]]

\* The static initialiser of otf_info, and the values firmware_request_cb
\* gives the flags.
otf_info_init == [buffer |-> [i \in 1 .. BufLen |-> 0], chunk_ready |-> FALSE, chunk_size |-> 0, last_chunk_size |-> 0, end_status |-> EXIT_SUCCESS, update_successful |-> FALSE]

otf_reset(o) == [o EXCEPT !.chunk_ready = FALSE, !.chunk_size = 0, !.last_chunk_size = 0, !.end_status = EXIT_SUCCESS, !.update_successful = FALSE]

\* A push that leaves an undrained chunk in place.
otf_push_guarded(o, data) == IF o.chunk_ready THEN o ELSE [o EXCEPT !.chunk_size = Len(data), !.buffer = memcpy(o.buffer, data), !.chunk_ready = TRUE]

\* The producer's push in firmware_data_cb.
otf_push(o, data) == [o EXCEPT !.chunk_size = Len(data), !.buffer = memcpy(o.buffer, data), !.chunk_ready = TRUE]

\* A pull that reports the size of the chunk returned before.
otf_read_chunk_stale(o) == SubSeq(o.buffer, 1, o.last_chunk_size)

\* otf_read_image_cb() once chunk_ready is seen: the chunk handed to the
\* engine (*p, *size) and the flags it leaves.
otf_read_chunk(o) == SubSeq(o.buffer, 1, o.chunk_size)

otf_read_image_cb(o) == [o EXCEPT !.chunk_ready = IF o.chunk_size >= o.last_chunk_size THEN FALSE ELSE o.chunk_ready, !.last_chunk_size = o.chunk_size, !.chunk_size = 0]

(***************************************************************************)
(* State.                                                                   *)
(***************************************************************************)
VARIABLES
  hw_dual,             \* the bootloader environment says dualboot=yes
  on_the_fly,          \* cc_cfg->on_the_fly
  is_dual,             \* static int is_dual: -1, 0 or 1
  dl_file,             \* the file the request opened in the download directory exists
  pkg,                 \* the assembled package <name>.swu
  frags,               \* the fragment files <name><i>.zip
  fw_fp,               \* static FILE *fw_fp: "null", "open", "closed" (closed, pointer kept)
  fw_downloaded_path,  \* static char *fw_downloaded_path
  otf_info,            \* static otf_info_t otf_info (flags and buffer)
  mutex,               \* otf_info.mutex: "static", "init", "destroyed"
  conn,                \* where the connector thread is
  loops,               \* the poll counter of the final-chunk data call
  engine,              \* the streaming engine's thread: "off", "run", "end2", "end3", "ended"
  end_arg,             \* the status the engine handed to otf_end_cb
  late_e3,             \* an earlier session's otf_end_cb(SUCCESS) has its last statement to run
  end_log,             \* what the session's otf_end_cb has done so far, in order
  sess,                \* the connector's session: phase, target, branch of the request, chunks sent
  obs,                 \* what the last finished callback did and returned
  bridge,              \* bytes pushed and bytes pulled in the streaming session
  reboot,              \* the reboot the agent has started
  requests_left        \* requests the connector has yet to make

vars == <<hw_dual, on_the_fly, is_dual, dl_file, pkg, frags, fw_fp, fw_downloaded_path, otf_info, mutex, conn, loops, engine, end_arg, late_e3, end_log, sess, obs, bridge, reboot, requests_left>>

cfgv == <<hw_dual, on_the_fly>>

diskv == <<dl_file, pkg, frags>>

filev == <<fw_fp, fw_downloaded_path>>

otfv == <<otf_info, mutex>>

engv == <<engine, end_arg, late_e3, end_log>>

NoFrags == [i \in FragIdx |-> AbsentFrag]

GenNone == [error |-> 0, crash |-> FALSE, step |-> "none", manifest |-> ZeroManifest, n_fragments |-> 0, asm_called |-> FALSE, asm_err |-> 0, opened |-> FALSE, out |-> <<>>, log |-> <<>>]

GenOf(g) == [error |-> g.error, crash |-> g.crash, step |-> g.step, manifest |-> g.manifest, n_fragments |-> g.n_fragments, asm_called |-> g.asm_called, asm_err |-> g.asm.error, opened |-> g.asm.opened, out |-> g.asm.out, log |-> g.asm.log]

\* The record of a callback: its name, the branch it took, the branch of the
\* request that opened the session (cancel), what it was
\* given, what it found (avail is -1 when the space was not queried), what
\* it returned.
\* No write or close of the download file in the call.
NoIo == [write |-> -1, close |-> "none"]

ObsNone == [cb |-> "none", branch |-> "none", opened_as |-> "none", target |-> CC_FW_TARGET_SWU, last |-> FALSE, ret |-> "none", sent |-> 0, total_size |-> 0, avail |-> -1, gen_called |-> FALSE, mf |-> NoManifestFile, gen |-> GenNone, frags0 |-> NoFrags, pkg0 |-> NoFile, dl0 |-> FALSE, fp0 |-> "null", install_called |-> FALSE, installer |-> "none", install_out |-> NoInstall, install_dual |-> -1, data |-> <<>>, over |-> FALSE, create |-> "none", io |-> NoIo, system_reset |-> "none", ub |-> {}]

BridgeInit == [pushed |-> <<>>, pulled |-> <<>>, n_push |-> 0, n_pull |-> 0, ok |-> TRUE]

\* The history is dropped once a chunk was pushed over an undrained one or
\* the consumer pulled with no new chunk.
BridgeBroken == [pushed |-> <<>>, pulled |-> <<>>, n_push |-> 0, n_pull |-> 0, ok |-> FALSE]

SessIdle == [phase |-> "idle", target |-> CC_FW_TARGET_SWU, branch |-> "none", sent |-> 0]

InitCommon ==
  /\ hw_dual \in BOOLEAN
  /\ is_dual = -1
  /\ dl_file = FALSE
  /\ pkg = NoFile
  /\ fw_fp = "null"
  /\ fw_downloaded_path = NullPath
  /\ otf_info = otf_info_init
  /\ mutex = "static"
  /\ conn = "idle"
  /\ loops = 0
  /\ engine = "off"
  /\ end_arg = "SUCCESS"
  /\ late_e3 = FALSE
  /\ end_log = <<>>
  /\ sess = SessIdle
  /\ obs = ObsNone
  /\ bridge = BridgeInit
  /\ reboot = "none"

\* A device with or without on-the-fly updates, no fragment uploaded.
Init == InitCommon /\ on_the_fly \in BOOLEAN /\ frags = NoFrags /\ requests_left = MaxSessions

\* A device configured without on-the-fly updates, any set of fragment files
\* in the fragments directory.
InitMf == InitCommon /\ on_the_fly = FALSE /\ frags \in [FragIdx -> FragFiles] /\ requests_left = MaxSessionsMf

\* The process runs: it has neither crashed nor restarted the system.
Alive == conn \notin {"crashed", "rebooted"}

(***************************************************************************)
(* firmware_request_cb().                                                   *)
(***************************************************************************)
\* get_configuration() fails: the request is refused before the branch test.
RequestCfgFail ==
  /\ conn = "idle" /\ sess.phase = "idle" /\ requests_left > 0
  /\ requests_left' = requests_left - 1
  /\ \E target \in Targets :
       obs' = [ObsNone EXCEPT !.cb = "request", !.target = target, !.ret = CCAPI_FW_REQUEST_ERROR_ENCOUNTERED_ERROR, !.fp0 = fw_fp]
  /\ UNCHANGED <<cfgv, is_dual, diskv, filev, otfv, conn, loops, engv, sess, bridge, reboot>>

\* A request that opens the download file without looking at the space.
firmware_request_file_unchecked(total_size, alloc_ok, avail, fopen_ok, fp, dl) ==
  IF ~alloc_ok THEN [error |-> CCAPI_FW_REQUEST_ERROR_ENCOUNTERED_ERROR, fw_fp |-> fp, path |-> NullPath, dl_file |-> dl]
  ELSE IF ~fopen_ok THEN [error |-> CCAPI_FW_REQUEST_ERROR_ENCOUNTERED_ERROR, fw_fp |-> "null", path |-> FreedPath(PathOf("dl")), dl_file |-> dl]
  ELSE [error |-> CCAPI_FW_REQUEST_ERROR_NONE, fw_fp |-> "open", path |-> PathOf("dl"), dl_file |-> TRUE]

\* The file-based branch: path, space check, fopen; on an error the path is
\* freed and the pointer kept.
firmware_request_file(total_size, alloc_ok, avail, fopen_ok, fp, dl) ==
  IF ~alloc_ok THEN [error |-> CCAPI_FW_REQUEST_ERROR_ENCOUNTERED_ERROR, fw_fp |-> fp, path |-> NullPath, dl_file |-> dl]
  ELSE IF avail = 0 THEN [error |-> CCAPI_FW_REQUEST_ERROR_ENCOUNTERED_ERROR, fw_fp |-> fp, path |-> FreedPath(PathOf("dl")), dl_file |-> dl]
  ELSE IF avail < total_size THEN [error |-> CCAPI_FW_REQUEST_ERROR_DOWNLOAD_INVALID_SIZE, fw_fp |-> fp, path |-> FreedPath(PathOf("dl")), dl_file |-> dl]
  ELSE IF ~fopen_ok THEN [error |-> CCAPI_FW_REQUEST_ERROR_ENCOUNTERED_ERROR, fw_fp |-> "null", path |-> FreedPath(PathOf("dl")), dl_file |-> dl]
  ELSE [error |-> CCAPI_FW_REQUEST_ERROR_NONE, fw_fp |-> "open", path |-> PathOf("dl"), dl_file |-> TRUE]

RequestFile ==
  /\ conn = "idle" /\ sess.phase = "idle" /\ requests_left > 0
  /\ requests_left' = requests_left - 1
  /\ \E target \in Targets, total_size \in 1 .. MaxSize, q \in Queries(is_dual), alloc_ok \in BOOLEAN, avail \in Avails, fopen_ok \in BOOLEAN :
       LET d == is_dual_boot_system(is_dual, hw_dual, q)
           r == firmware_request_file(total_size, alloc_ok, avail, fopen_ok, fw_fp, dl_file)
       IN /\ ~otf_branch(d, on_the_fly, target)
          /\ is_dual' = d
          /\ fw_fp' = r.fw_fp
          /\ fw_downloaded_path' = r.path
          /\ dl_file' = r.dl_file
          /\ sess' = IF r.error = CCAPI_FW_REQUEST_ERROR_NONE THEN [phase |-> "open", target |-> target, branch |-> "file", sent |-> 0] ELSE SessIdle
          /\ obs' = [ObsNone EXCEPT !.cb = "request", !.branch = "file", !.target = target, !.ret = r.error, !.total_size = total_size, !.avail = IF alloc_ok THEN avail ELSE -1, !.dl0 = dl_file, !.fp0 = fw_fp]
  /\ UNCHANGED <<cfgv, pkg, frags, otfv, conn, loops, engv, bridge, reboot>>

\* The streaming branch: the mutex is initialised, the flags are reset, the
\* engine is started; `start` is what the environment does.
RequestStream ==
  /\ conn = "idle" /\ sess.phase = "idle" /\ requests_left > 0
  /\ requests_left' = requests_left - 1
  /\ \E target \in Targets, q \in Queries(is_dual), start \in {"cmd_fails", "start_fails", "started"} :
       LET d == is_dual_boot_system(is_dual, hw_dual, q)
           ok == start = "started"
       IN /\ otf_branch(d, on_the_fly, target)
          /\ ok => engine \in {"off", "end3", "ended"}
          /\ is_dual' = d
          /\ otf_info' = otf_reset(otf_info)
          /\ mutex' = IF ok THEN "init" ELSE "destroyed"
          /\ engine' = IF ok THEN "run" ELSE engine
          /\ late_e3' = IF ok THEN (late_e3 \/ (engine = "end3" /\ end_arg = "SUCCESS")) ELSE late_e3
          /\ end_log' = IF ok THEN <<>> ELSE end_log
          /\ bridge' = IF ok THEN BridgeInit ELSE bridge
          /\ sess' = IF ok THEN [phase |-> "open", target |-> target, branch |-> "stream", sent |-> 0] ELSE SessIdle
          /\ obs' = [ObsNone EXCEPT !.cb = "request", !.branch = "stream", !.target = target, !.ret = IF ok THEN CCAPI_FW_REQUEST_ERROR_NONE ELSE CCAPI_FW_REQUEST_ERROR_ENCOUNTERED_ERROR, !.fp0 = fw_fp, !.ub = (IF mutex = "init" THEN {"mutex initialised twice"} ELSE {}) \cup (IF ok THEN {} ELSE {"mutex unlocked while not locked"})]
  /\ UNCHANGED <<cfgv, diskv, filev, conn, loops, end_arg, reboot>>

(***************************************************************************)
(* firmware_data_cb(), file-based branch.                                   *)
(***************************************************************************)
\* free(fw_downloaded_path): the buffer is released, the pointer is kept.
free_path(p) == IF p.st = "null" THEN p ELSE FreedPath(p)

\* What the call leaves: the classification cache, the file handle, the
\* path, the package and fragment files, and the record of the call; the
\* session goes on after a chunk that is not the last, is complete after a
\* successful last chunk, and is over after an error.
DataFileReturn(d, o, fp2, path2, pkg2, frags2, crashed) ==
  /\ is_dual' = d
  /\ fw_fp' = fp2
  /\ fw_downloaded_path' = path2
  /\ pkg' = pkg2
  /\ frags' = frags2
  /\ conn' = IF crashed THEN "crashed" ELSE "idle"
  /\ obs' = o
  /\ sess' = IF crashed \/ o.ret # CCAPI_FW_DATA_ERROR_NONE THEN SessIdle
             ELSE IF o.last THEN [sess EXCEPT !.phase = "complete", !.sent = 1]
             ELSE [sess EXCEPT !.sent = 1]
  /\ UNCHANGED <<cfgv, requests_left, dl_file, otfv, loops, engv, bridge, reboot>>

\* case CC_FW_TARGET_SWU: install the downloaded file.
DataFileSwu(d, base) ==
  \E q2 \in Queries(d) :
    LET d2 == is_dual_boot_system(d, hw_dual, q2)
    IN \E out \in InstallOutcomes(d2) :
         LET r == process_swu_package(d2, out)
         IN DataFileReturn(d2, [base EXCEPT !.ret = r.error, !.install_called = TRUE, !.installer = r.installer, !.install_out = out, !.install_dual = d2], "closed", free_path(fw_downloaded_path), pkg, frags, FALSE)

\* case CC_FW_TARGET_MANIFEST: generate the package, then install it.
DataFileManifest(d, base) ==
  \E mf \in ManifestFiles :
    LET p == mf_parse_file(mf)
        live == p.error = 0 /\ ~p.crash
    IN \E avail \in (IF live THEN Avails ELSE {0}) :
         \E fail \in (IF live /\ avail # 0 /\ avail >= p.manifest.fw_total_size THEN FailPointsOf(p.manifest, frags) ELSE {NoFail}) :
           LET g == mf_generate_fw(mf, avail, fail, frags, pkg, fw_downloaded_path)
               o == [base EXCEPT !.gen_called = TRUE, !.mf = mf, !.gen = GenOf(g), !.avail = IF live THEN avail ELSE -1, !.frags0 = frags, !.pkg0 = pkg]
           IN IF g.crash
              THEN DataFileReturn(d, [o EXCEPT !.ret = "crash"], "closed", fw_downloaded_path, pkg, frags, TRUE)
              ELSE IF g.error # 0
              THEN DataFileReturn(d, [o EXCEPT !.ret = CCAPI_FW_DATA_ERROR_INVALID_DATA], "closed", free_path(g.path), g.pkg, g.frags, FALSE)
              ELSE \E q2 \in Queries(d) :
                     LET d2 == is_dual_boot_system(d, hw_dual, q2)
                     IN \E out \in InstallOutcomes(d2) :
                          LET r == process_swu_package(d2, out)
                          IN DataFileReturn(d2, [o EXCEPT !.ret = r.error, !.install_called = TRUE, !.installer = r.installer, !.install_out = out, !.install_dual = d2], "closed", free_path(g.path), g.pkg, g.frags, FALSE)

\* A data call that takes the chunk for written and the file for closed.
data_file_stage_unchecked(retval, last_chunk, close) == IF last_chunk THEN "process" ELSE "more"

\* The steps of the file-based branch up to the switch on the target:
\* retval is fwrite()'s result, close the outcome of fsync() and fclose().
data_file_stage(retval, last_chunk, close) ==
  IF retval # 1 THEN "write_error"
  ELSE IF ~last_chunk THEN "more"
  ELSE IF close # "ok" THEN "close_error"
  ELSE "process"

\* size: the chunk's length; write_ok: fwrite() wrote it; close: the outcome
\* of fsync() and fclose() on the last chunk.
DataFile ==
  /\ conn = "idle" /\ sess.phase = "open"
  /\ \E q \in Queries(is_dual), last \in BOOLEAN, size \in {0, 1}, write_ok \in BOOLEAN :
       LET d == is_dual_boot_system(is_dual, hw_dual, q)
           retval == IF size = 0 \/ ~write_ok THEN 0 ELSE 1
           base == [ObsNone EXCEPT !.cb = "data", !.branch = "file", !.target = sess.target, !.last = last, !.sent = 1, !.fp0 = fw_fp, !.dl0 = dl_file]
       IN /\ ~otf_branch(d, on_the_fly, sess.target)
          /\ IF fw_fp # "open"
             THEN DataFileReturn(d, [base EXCEPT !.ret = "crash", !.ub = {"fwrite on a file that is not open"}], fw_fp, fw_downloaded_path, pkg, frags, TRUE)
             ELSE \E close \in (IF retval = 1 /\ last THEN {"ok", "fsync_fails", "fclose_fails"} ELSE {"none"}) :
                    LET stage == data_file_stage(retval, last, close)
                        io == [base EXCEPT !.io = [write |-> retval, close |-> close]]
                    IN IF stage = "write_error"
                       THEN DataFileReturn(d, [io EXCEPT !.ret = CCAPI_FW_DATA_ERROR_INVALID_DATA], fw_fp, fw_downloaded_path, pkg, frags, FALSE)
                       ELSE IF stage = "more"
                       THEN DataFileReturn(d, [io EXCEPT !.ret = CCAPI_FW_DATA_ERROR_NONE], fw_fp, fw_downloaded_path, pkg, frags, FALSE)
                       ELSE IF stage = "close_error"
                       THEN DataFileReturn(d, [io EXCEPT !.ret = CCAPI_FW_DATA_ERROR_INVALID_DATA], IF close = "fsync_fails" THEN "open" ELSE "closed", fw_downloaded_path, pkg, frags, FALSE)
                       ELSE IF sess.target = CC_FW_TARGET_MANIFEST
                       THEN DataFileManifest(d, io)
                       ELSE DataFileSwu(d, io)

(***************************************************************************)
(* firmware_cancel_cb(): the part both branches run.  `close` is the        *)
(* outcome of fsync() and fclose().                                         *)
(***************************************************************************)
\* remove(fw_downloaded_path)
remove_path(path, dl, pk) == [dl_file |-> IF path.file = "dl" THEN FALSE ELSE dl, pkg |-> IF path.file = "pkg" THEN NoFile ELSE pk]

cancel_tail(fp, path, dl, pk, close) ==
  LET removes == fp # "null" /\ close = "ok"
      rm == IF removes THEN remove_path(path, dl, pk) ELSE [dl_file |-> dl, pkg |-> pk]
  IN [fw_fp |-> IF fp = "open" /\ close # "fsync_fails" THEN "closed" ELSE fp,
      path |-> free_path(path),
      dl_file |-> rm.dl_file,
      pkg |-> rm.pkg,
      ub |-> (IF fp = "closed" THEN {"fw_fp used after fclose"} ELSE {}) \cup (IF removes /\ path.st = "freed" THEN {"fw_downloaded_path used after free"} ELSE {}) \cup (IF path.st = "freed" THEN {"fw_downloaded_path freed twice"} ELSE {})]

CancelFile ==
  /\ conn = "idle" /\ sess.phase = "open"
  /\ \E q \in Queries(is_dual), close \in {"ok", "fsync_fails", "fclose_fails"} :
       LET d == is_dual_boot_system(is_dual, hw_dual, q)
           t == cancel_tail(fw_fp, fw_downloaded_path, dl_file, pkg, close)
       IN /\ ~otf_branch(d, on_the_fly, sess.target)
          /\ is_dual' = d
          /\ fw_fp' = t.fw_fp
          /\ fw_downloaded_path' = t.path
          /\ dl_file' = t.dl_file
          /\ pkg' = t.pkg
          /\ obs' = [ObsNone EXCEPT !.cb = "cancel", !.branch = "file", !.opened_as = sess.branch, !.target = sess.target, !.sent = sess.sent, !.fp0 = fw_fp, !.dl0 = dl_file, !.ub = t.ub]
  /\ sess' = SessIdle
  /\ UNCHANGED <<cfgv, requests_left, frags, otfv, conn, loops, engv, bridge, reboot>>

(***************************************************************************)
(* The history of the bridge: a push extends it when every earlier chunk    *)
(* was drained, a pull when exactly one chunk waits.                        *)
(***************************************************************************)
bridge_push(b, data) == IF b.ok /\ b.n_pull = b.n_push THEN [b EXCEPT !.pushed = @ \o data, !.n_push = @ + 1] ELSE BridgeBroken

bridge_pull(b, chunk) == IF b.ok /\ b.n_pull + 1 = b.n_push THEN [b EXCEPT !.pulled = @ \o chunk, !.n_pull = @ + 1] ELSE BridgeBroken

\* pthread_mutex_lock() on a mutex that is not initialised.
mutex_lock_ub(m) == IF m = "init" THEN {} ELSE {"mutex locked while not initialised"}

(***************************************************************************)
(* firmware_data_cb(), streaming branch.                                    *)
(***************************************************************************)
\* The push; on the last chunk the call goes on to the wait.
DataStream ==
  /\ conn = "idle" /\ sess.phase = "open" /\ sess.sent < MaxChunks
  /\ \E q \in Queries(is_dual), data \in Chunks, last \in BOOLEAN :
       LET d == is_dual_boot_system(is_dual, hw_dual, q)
       IN /\ otf_branch(d, on_the_fly, sess.target)
          /\ (sess.sent + 1 = MaxChunks => last)
          /\ is_dual' = d
          /\ otf_info' = otf_push(otf_info, data)
          /\ bridge' = bridge_push(bridge, data)
          /\ conn' = IF last THEN "data_lock" ELSE "idle"
          /\ sess' = [sess EXCEPT !.sent = @ + 1]
          /\ obs' = [ObsNone EXCEPT !.cb = "data", !.branch = "stream", !.target = sess.target, !.last = last, !.sent = sess.sent + 1, !.ret = IF last THEN "pending" ELSE CCAPI_FW_DATA_ERROR_NONE, !.data = data, !.over = otf_info.chunk_ready]
  /\ loops' = 0
  /\ UNCHANGED <<cfgv, requests_left, diskv, filev, mutex, engv, reboot>>

\* pthread_mutex_lock(); pthread_cond_wait(): the caller sleeps on cv_end.
DataWait ==
  /\ conn = "data_lock"
  /\ \E crash \in (IF mutex = "init" THEN {FALSE} ELSE BOOLEAN) :
       conn' = IF crash THEN "crashed" ELSE "data_wait"
  /\ obs' = [obs EXCEPT !.ub = @ \cup mutex_lock_ub(mutex)]
  /\ UNCHANGED <<cfgv, requests_left, is_dual, diskv, filev, otfv, loops, engv, sess, bridge, reboot>>

\* Woken: unlock, destroy, then the test of end_status.
DataWoken ==
  /\ conn = "data_woken"
  /\ mutex' = "destroyed"
  /\ IF otf_info.end_status = EXIT_FAILURE
     THEN /\ conn' = "idle"
          /\ sess' = SessIdle
          /\ obs' = [obs EXCEPT !.ret = CCAPI_FW_DATA_ERROR_INVALID_DATA]
     ELSE /\ conn' = "data_poll"
          /\ UNCHANGED <<sess, obs>>
  /\ loops' = 0
  /\ UNCHANGED <<cfgv, requests_left, is_dual, diskv, filev, otf_info, engv, bridge, reboot>>

\* One test of "while (!otf_info.update_successful && loops < 100)": the
\* body, or the exit and "if (loops >= 100)".
DataPoll ==
  /\ conn = "data_poll"
  /\ IF ~otf_info.update_successful /\ loops < PollLimit
     THEN /\ loops' = loops + 1
          /\ UNCHANGED <<conn, sess, obs>>
     ELSE LET error == IF loops >= PollLimit THEN CCAPI_FW_DATA_ERROR_INVALID_DATA ELSE CCAPI_FW_DATA_ERROR_NONE
          IN /\ loops' = 0
             /\ conn' = "idle"
             /\ sess' = IF error = CCAPI_FW_DATA_ERROR_NONE THEN [sess EXCEPT !.phase = "complete"] ELSE SessIdle
             /\ obs' = [obs EXCEPT !.ret = error]
  /\ UNCHANGED <<cfgv, requests_left, is_dual, diskv, filev, otfv, engv, bridge, reboot>>

(***************************************************************************)
(* firmware_cancel_cb(), streaming branch.                                  *)
(***************************************************************************)
CancelStream ==
  /\ conn = "idle" /\ sess.phase = "open"
  /\ \E q \in Queries(is_dual) :
       LET d == is_dual_boot_system(is_dual, hw_dual, q)
       IN /\ otf_branch(d, on_the_fly, sess.target)
          /\ is_dual' = d
  /\ otf_info' = [otf_info EXCEPT !.chunk_size = 0, !.chunk_ready = TRUE]
  /\ bridge' = bridge_push(bridge, <<>>)
  /\ conn' = "cancel_lock"
  /\ obs' = [ObsNone EXCEPT !.cb = "cancel", !.branch = "stream", !.opened_as = sess.branch, !.target = sess.target, !.sent = sess.sent, !.ret = "pending", !.fp0 = fw_fp, !.dl0 = dl_file]
  /\ UNCHANGED <<cfgv, requests_left, diskv, filev, mutex, loops, engv, sess, reboot>>

CancelWait ==
  /\ conn = "cancel_lock"
  /\ \E crash \in (IF mutex = "init" THEN {FALSE} ELSE BOOLEAN) :
       conn' = IF crash THEN "crashed" ELSE "cancel_wait"
  /\ obs' = [obs EXCEPT !.ub = @ \cup mutex_lock_ub(mutex)]
  /\ UNCHANGED <<cfgv, requests_left, is_dual, diskv, filev, otfv, loops, engv, sess, bridge, reboot>>

\* Woken: unlock, destroy, then the part both branches run.
CancelWoken ==
  /\ conn = "cancel_woken"
  /\ mutex' = "destroyed"
  /\ \E close \in (IF fw_fp = "null" THEN {"ok"} ELSE {"ok", "fsync_fails", "fclose_fails"}) :
       LET t == cancel_tail(fw_fp, fw_downloaded_path, dl_file, pkg, close)
       IN /\ fw_fp' = t.fw_fp
          /\ fw_downloaded_path' = t.path
          /\ dl_file' = t.dl_file
          /\ pkg' = t.pkg
          /\ obs' = [obs EXCEPT !.ret = "returned", !.ub = @ \cup t.ub]
          /\ \E crash \in (IF t.ub = {} THEN {FALSE} ELSE BOOLEAN) :
               conn' = IF crash THEN "crashed" ELSE "idle"
  /\ sess' = SessIdle
  /\ UNCHANGED <<cfgv, requests_left, is_dual, frags, otf_info, loops, engv, bridge, reboot>>

(***************************************************************************)
(* The engine's thread: the pull callback while the stream runs, then the   *)
(* completion callback, once, in three steps.                               *)
(***************************************************************************)
Pull ==
  /\ Alive /\ engine = "run" /\ otf_info.chunk_ready
  /\ bridge' = bridge_pull(bridge, otf_read_chunk(otf_info))
  /\ otf_info' = otf_read_image_cb(otf_info)
  /\ UNCHANGED <<cfgv, requests_left, is_dual, diskv, filev, mutex, conn, loops, engv, sess, obs, reboot>>

\* A completion callback that runs the post-update action whatever the
\* status.
otf_end_events_post_always(status, post_ok) == <<"record", IF post_ok THEN "post_ok" ELSE "post_failed">>

\* What otf_end_cb() does before the lock: it records the status, and on
\* SUCCESS runs ipc_postupdate(), which succeeds or fails.
otf_end_events(status, post_ok) == IF status = "SUCCESS" THEN <<"record", IF post_ok THEN "post_ok" ELSE "post_failed">> ELSE <<"record">>

\* The end_status it records: EXIT_SUCCESS for SUCCESS, turned into
\* EXIT_FAILURE by a failed post-update action.
otf_end_status(status, post_ok) == IF status = "SUCCESS" /\ post_ok THEN EXIT_SUCCESS ELSE EXIT_FAILURE

\* otf_end_cb() up to the lock: end_status from the status and from the
\* post-update step.
EndCbStart ==
  /\ Alive /\ engine = "run"
  /\ \E status \in {"SUCCESS", "FAILURE"}, post_ok \in BOOLEAN :
       /\ (status = "FAILURE" => post_ok)
       /\ end_arg' = status
       /\ otf_info' = [otf_info EXCEPT !.end_status = otf_end_status(status, post_ok)]
       /\ end_log' = otf_end_events(status, post_ok)
  /\ engine' = "end2"
  /\ UNCHANGED <<cfgv, requests_left, is_dual, diskv, filev, mutex, conn, loops, late_e3, sess, obs, bridge, reboot>>

\* pthread_cond_signal(): a thread sleeping on cv_end wakes, otherwise the
\* signal is gone.
cond_signal(c) == IF c = "data_wait" THEN "data_woken" ELSE IF c = "cancel_wait" THEN "cancel_woken" ELSE c

EndCbSignal ==
  /\ Alive /\ engine = "end2"
  /\ conn' = cond_signal(conn)
  /\ engine' = "end3"
  /\ end_log' = Append(end_log, "signal")
  /\ UNCHANGED <<cfgv, requests_left, is_dual, diskv, filev, otfv, loops, end_arg, late_e3, sess, obs, bridge, reboot>>

\* pthread_cond_wait() returns although cv_end was not signalled, which
\* POSIX allows at any time; the callers wait once, with no condition to
\* test again.
SpuriousWakeup ==
  /\ Alive /\ conn \in {"data_wait", "cancel_wait"}
  /\ conn' = cond_signal(conn)
  /\ UNCHANGED <<cfgv, requests_left, is_dual, diskv, filev, otfv, loops, engv, sess, obs, bridge, reboot>>

\* "if (status == SUCCESS && otf_info.end_status == EXIT_SUCCESS)"
otf_end_finish(o, status) == IF status = "SUCCESS" /\ o.end_status = EXIT_SUCCESS THEN [o EXCEPT !.update_successful = TRUE] ELSE o

EndCbFinish ==
  /\ Alive /\ engine = "end3"
  /\ otf_info' = otf_end_finish(otf_info, end_arg)
  /\ engine' = "ended"
  /\ UNCHANGED <<cfgv, requests_left, is_dual, diskv, filev, mutex, conn, loops, end_arg, late_e3, end_log, sess, obs, bridge, reboot>>

\* The last statement of an earlier session's otf_end_cb(SUCCESS), run after
\* the next session has started.
LateE3 ==
  /\ Alive /\ late_e3
  /\ otf_info' = otf_end_finish(otf_info, "SUCCESS")
  /\ late_e3' = FALSE
  /\ UNCHANGED <<cfgv, requests_left, is_dual, diskv, filev, mutex, conn, loops, engine, end_arg, end_log, sess, obs, bridge, reboot>>

(***************************************************************************)
(* firmware_reset_cb() and the reboot.                                      *)
(***************************************************************************)
\* A reboot that restarts a single-boot system directly and sends a
\* dual-boot system through recovery mode.
reboot_system_swapped(dual, recovery_ok) == IF dual = 0 THEN "direct" ELSE IF recovery_ok THEN "recovery" ELSE "recovery_failed"

\* A reset that runs the reboot itself whether or not the thread was created.
reset_reboot_inline(create_ok) == "inline"

\* "if (pthread_create(&reboot_thread, NULL, reboot_threaded, NULL) != 0)
\* reboot_system();": who runs the reboot.
reset_reboot(create_ok) == IF create_ok THEN "thread" ELSE "inline"

\* reboot_system(): a dual-boot system restarts directly, any other goes
\* through reboot_recovery(), which may fail and return.
reboot_system(dual, recovery_ok) == IF dual > 0 THEN "direct" ELSE IF recovery_ok THEN "recovery" ELSE "recovery_failed"

\* A reset that leaves *system_reset as the connector passed it.
reset_system_reset_kept(passed) == passed

\* "*system_reset = CCAPI_FALSE;"
reset_system_reset(passed) == "CCAPI_FALSE"

\* What the connector does when the callback returns: with *system_reset at
\* CCAPI_TRUE it reboots the device itself, otherwise r stands.
connector_reboot(system_reset, r) == IF system_reset = "CCAPI_TRUE" THEN "connector" ELSE r

\* passed: the value *system_reset holds when the connector calls; swap_ok:
\* the swap command succeeds; create_ok: pthread_create() succeeds.
Reset ==
  /\ conn = "idle" /\ sess.phase = "complete"
  /\ \E q \in Queries(is_dual), swap_ok \in BOOLEAN, create_ok \in BOOLEAN, passed \in {"CCAPI_TRUE", "CCAPI_FALSE"} :
       LET d == is_dual_boot_system(is_dual, hw_dual, q)
           stream == otf_branch(d, on_the_fly, sess.target)
           sr == reset_system_reset(passed)
           base == [ObsNone EXCEPT !.cb = "reset", !.branch = IF stream THEN "stream" ELSE "file", !.target = sess.target, !.system_reset = sr]
       IN IF stream /\ (~otf_info.update_successful \/ ~swap_ok)
          THEN /\ is_dual' = d
               /\ obs' = [base EXCEPT !.ret = "no_reboot"]
               /\ reboot' = connector_reboot(sr, reboot)
               /\ conn' = IF sr = "CCAPI_TRUE" THEN "rebooted" ELSE conn
          ELSE IF reset_reboot(create_ok) = "thread"
          THEN /\ is_dual' = d
               /\ reboot' = connector_reboot(sr, "thread")
               /\ obs' = [base EXCEPT !.ret = "thread", !.create = IF create_ok THEN "ok" ELSE "failed"]
               /\ conn' = IF sr = "CCAPI_TRUE" THEN "rebooted" ELSE conn
          ELSE \E q2 \in Queries(d), recovery_ok \in BOOLEAN :
                 LET d2 == is_dual_boot_system(d, hw_dual, q2)
                     r == reboot_system(d2, recovery_ok)
                 IN /\ is_dual' = d2
                    /\ reboot' = IF r = "recovery_failed" THEN connector_reboot(sr, r) ELSE r
                    /\ obs' = [base EXCEPT !.ret = "inline", !.create = IF create_ok THEN "ok" ELSE "failed"]
                    /\ conn' = IF r = "recovery_failed" /\ sr # "CCAPI_TRUE" THEN conn ELSE "rebooted"
  /\ sess' = SessIdle
  /\ UNCHANGED <<cfgv, requests_left, diskv, filev, otfv, loops, engv, bridge>>

\* reboot_threaded(): reboot_system() on the thread the reset created.
RebootThread ==
  /\ Alive /\ reboot = "thread"
  /\ \E q \in Queries(is_dual), recovery_ok \in BOOLEAN :
       LET d == is_dual_boot_system(is_dual, hw_dual, q)
           r == reboot_system(d, recovery_ok)
       IN /\ is_dual' = d
          /\ reboot' = r
          /\ conn' = IF r = "recovery_failed" THEN conn ELSE "rebooted"
  /\ UNCHANGED <<cfgv, requests_left, diskv, filev, otfv, loops, engv, sess, obs, bridge>>

(***************************************************************************)
(* Specifications.                                                          *)
(***************************************************************************)
Next ==
  \/ RequestCfgFail
  \/ RequestFile
  \/ RequestStream
  \/ DataFile
  \/ CancelFile
  \/ DataStream
  \/ DataWait
  \/ DataWoken
  \/ DataPoll
  \/ CancelStream
  \/ CancelWait
  \/ CancelWoken
  \/ Pull
  \/ EndCbStart
  \/ EndCbSignal
  \/ SpuriousWakeup
  \/ EndCbFinish
  \/ LateE3
  \/ Reset
  \/ RebootThread

Spec == Init /\ [][Next]_vars

\* The file-based callbacks on a device without on-the-fly updates, over
\* every set of fragment files.
NextMf ==
  \/ RequestCfgFail
  \/ RequestFile
  \/ DataFile
  \/ CancelFile
  \/ Reset
  \/ RebootThread

SpecMf == InitMf /\ [][NextMf]_vars

\* The threads are scheduled: a step of the connector's callback that can
\* be taken is taken, and so is a step of the engine's completion callback.
FairSpec ==
  /\ Spec
  /\ WF_vars(DataWait) /\ WF_vars(DataWoken) /\ WF_vars(DataPoll)
  /\ WF_vars(CancelWait) /\ WF_vars(CancelWoken)
  /\ WF_vars(EndCbStart) /\ WF_vars(EndCbSignal) /\ WF_vars(EndCbFinish)

TypeOK ==
  /\ is_dual \in {-1, 0, 1}
  /\ fw_fp \in {"null", "open", "closed"}
  /\ fw_downloaded_path \in PathStates
  /\ mutex \in {"static", "init", "destroyed"}
  /\ conn \in {"idle", "data_lock", "data_wait", "data_woken", "data_poll", "cancel_lock", "cancel_wait", "cancel_woken", "crashed", "rebooted"}
  /\ engine \in {"off", "run", "end2", "end3", "ended"}
  /\ loops \in 0 .. PollLimit
  /\ sess.phase \in {"idle", "open", "complete"}
  /\ reboot \in {"none", "thread", "direct", "recovery", "recovery_failed"}

(***************************************************************************)
(* The manifest pipeline (C1 - C6), under SpecMf.                           *)
(***************************************************************************)
\* The last callback was a file-based data call carrying the last chunk, the
\* download was closed, and the target's case of the switch ran.
LastChunkDone == obs.cb = "data" /\ obs.branch = "file" /\ obs.last /\ (obs.gen_called \/ obs.install_called)

ManifestDone == LastChunkDone /\ obs.target = CC_FW_TARGET_MANIFEST /\ obs.gen_called /\ ~obs.gen.crash

\* The assembled bytes have the manifest's size and checksum.
PackageMatches == Len(obs.gen.out) = obs.gen.manifest.fw_total_size /\ Crc32(obs.gen.out) = obs.gen.manifest.fw_checksum

\* No fragment 0..n-1 of the set is on disk.
FragmentsGone == \A i \in FragIdx : i < obs.gen.manifest.n_fragments => frags[i] = AbsentFrag

\* C1: for the manifest target the installer runs in a last-chunk data call
\* only if mf_generate_fw succeeded, that is only if the assembled file has
\* the manifest's size and CRC32; on a size or CRC mismatch the data call
\* returns an error and no install is dispatched.
C1_InstallOnlyVerifiedPackage ==
  ManifestDone =>
    /\ obs.install_called => (obs.gen.error = 0 /\ obs.gen.asm_called /\ obs.gen.asm_err = 0 /\ PackageMatches)
    /\ (obs.gen.asm_called /\ ~PackageMatches) => (obs.ret = CCAPI_FW_DATA_ERROR_INVALID_DATA /\ ~obs.install_called)

C1_Witness == ManifestDone /\ obs.install_called /\ obs.gen.manifest.n_fragments = 2 /\ Len(obs.gen.out) = 2

\* The manifest holds every key with a value the validation accepts.
ValidManifest(m) == m.fw_total_size > 0 /\ m.n_fragments > 0 /\ m.fragment_name # "" /\ access(m.fragments_dir) = 0

RECURSIVE Concat(_, _, _)
Concat(fr, i, n) == IF i >= n THEN <<>> ELSE fr[i].data \o Concat(fr, i + 1, n)

FragmentsMatch(fr, manifest) ==
  /\ \A i \in FragIdx : i < manifest.n_fragments => fr[i].k = "ok"
  /\ Len(Concat(fr, 0, manifest.n_fragments)) = manifest.fw_total_size
  /\ Crc32(Concat(fr, 0, manifest.n_fragments)) = manifest.fw_checksum

FragmentMissing == ManifestDone /\ obs.gen.step \notin {"parse", "space_unknown", "space", "path"} /\ \E i \in FragIdx : i < obs.gen.manifest.n_fragments /\ obs.frags0[i] = AbsentFrag

\* C4: if a fragment i, 0 <= i < n, is missing, mf_generate_fw fails before
\* the destination is opened or written: no destination file is created, no
\* fragment list survives (n_fragments is 0) and the installer is not run.
C4_MissingFragmentAborts ==
  FragmentMissing => (obs.gen.error # 0 /\ obs.gen.step = "fragments" /\ ~obs.gen.asm_called /\ ~obs.gen.opened /\ pkg = obs.pkg0 /\ obs.gen.n_fragments = 0 /\ ~obs.install_called /\ obs.ret = CCAPI_FW_DATA_ERROR_INVALID_DATA)

C4_Witness == FragmentMissing /\ obs.gen.manifest.n_fragments = 2 /\ obs.frags0[0].k = "ok" /\ obs.frags0[1] = AbsentFrag /\ pkg = NoFile

\* A file-based request that queried the space and found less than the
\* size the cloud declared.
RequestShort == obs.cb = "request" /\ obs.branch = "file" /\ obs.avail >= 0 /\ obs.avail < obs.total_size

\* A manifest run that queried the space and found less than the size the
\* manifest declares.
ManifestShort == ManifestDone /\ obs.gen.step # "parse" /\ obs.avail >= 0 /\ obs.avail < obs.gen.manifest.fw_total_size

\* Nothing was written: the download file of the request was not created.
RequestWroteNothing == dl_file = obs.dl0 /\ fw_fp = obs.fp0

\* Nothing was written: no destination, no fragment touched, no install.
ManifestWroteNothing == ~obs.gen.asm_called /\ ~obs.gen.opened /\ pkg = obs.pkg0 /\ frags = obs.frags0 /\ ~obs.install_called

\* C5 (as the claim states it): with less space than the declared size the
\* operation aborts before any destination write and reports a size-specific
\* error, for a raw download and for a manifest assembly alike.
C5_AsStated ==
  /\ RequestShort => (RequestWroteNothing /\ obs.ret = CCAPI_FW_REQUEST_ERROR_DOWNLOAD_INVALID_SIZE)
  /\ ManifestShort => (ManifestWroteNothing /\ obs.ret \notin {CCAPI_FW_DATA_ERROR_NONE, CCAPI_FW_DATA_ERROR_INVALID_DATA})

\* C5 (amended): with less space than the declared size both operations
\* abort before any destination write.  The request reports
\* CCAPI_FW_REQUEST_ERROR_DOWNLOAD_INVALID_SIZE when the space is known and
\* not 0, and the general CCAPI_FW_REQUEST_ERROR_ENCOUNTERED_ERROR when the
\* space reads 0; the manifest assembly reports the same
\* CCAPI_FW_DATA_ERROR_INVALID_DATA as every other failure of the pipeline.
C5_SpaceCheckAborts ==
  /\ RequestShort => (RequestWroteNothing /\ obs.ret = IF obs.avail = 0 THEN CCAPI_FW_REQUEST_ERROR_ENCOUNTERED_ERROR ELSE CCAPI_FW_REQUEST_ERROR_DOWNLOAD_INVALID_SIZE)
  /\ ManifestShort => (ManifestWroteNothing /\ obs.gen.error # 0 /\ obs.gen.step = (IF obs.avail = 0 THEN "space_unknown" ELSE "space") /\ obs.ret = CCAPI_FW_DATA_ERROR_INVALID_DATA)

C5_Witness == ManifestShort /\ obs.avail = 1 /\ obs.gen.manifest.fw_total_size = 2 /\ obs.frags0[0].k = "ok" /\ obs.ret = CCAPI_FW_DATA_ERROR_INVALID_DATA

\* The call failed in the assembly or in the install.
AssemblyOrInstallFailed == LastChunkDone /\ obs.ret = CCAPI_FW_DATA_ERROR_INVALID_DATA /\ (obs.gen.asm_called \/ obs.install_called)

\* C6: after a last-chunk data call that fails in assembly or in install no
\* partial artifact is left on disk: the fragments of the set and the
\* partial or failed package (for the SWU target the downloaded package) are
\* deleted.
C6_FailureLeavesNoArtifact ==
  AssemblyOrInstallFailed =>
    /\ pkg = NoFile
    /\ obs.gen_called => FragmentsGone
    /\ obs.target = CC_FW_TARGET_SWU => ~dl_file

(***************************************************************************)
(* The streaming bridge and the blocking waits (C7 - C10).                  *)
(***************************************************************************)
\* C7: when the consumer drains each pushed chunk once, in order and before
\* the next push, the concatenation of the chunks it was handed is exactly
\* the bytes pushed, with no gap and no duplication.
C7_BridgeRoundTrip ==
  (bridge.ok /\ bridge.n_pull = bridge.n_push) => (bridge.pulled = bridge.pushed /\ Len(bridge.pulled) = Len(bridge.pushed))

C7_Witness == bridge.ok /\ bridge.n_pull = 3 /\ bridge.n_push = 3 /\ bridge.pulled = <<1, 0, 1, 0>>

\* A cancel of a streaming session, after some chunks and before the last,
\* has returned.
StreamCancelReturned == obs.cb = "cancel" /\ obs.branch = "stream" /\ obs.opened_as = "stream" /\ obs.ret = "returned" /\ obs.sent > 0

\* C8: after such a cancel the session's mutex is destroyed and no
\* destination file handle is left open or dangling, so that a fresh request
\* starts from a clean state.
C8_CancelLeavesCleanSession ==
  StreamCancelReturned => (mutex = "destroyed" /\ fw_fp = "null")

\* C9: a cancel on the streaming path returns in every interleaving with
\* the consumer and the completion callback, which the engine runs once for
\* the session.
C9_CancelReturns ==
  (conn = "cancel_lock" /\ sess.branch = "stream") ~> (conn \notin {"cancel_lock", "cancel_wait", "cancel_woken"})

\* C10: the data call that delivers the last chunk on the streaming path
\* returns in every interleaving with the completion callback, which the
\* engine runs once for the session.
C10_FinalChunkReturns ==
  (conn = "data_lock" /\ sess.branch = "stream") ~> (conn \notin {"data_lock", "data_wait", "data_woken", "data_poll"})

(***************************************************************************)
(* The stream session's mutex, the boot classification, reset and reboot    *)
(* (C11 - C16).                                                             *)
(***************************************************************************)
\* Uses of otf_info.mutex outside its life: initialised again while still
\* initialised, locked before pthread_mutex_init() or after
\* pthread_mutex_destroy(), unlocked by a thread that does not hold it.
MutexMisuse == {"mutex initialised twice", "mutex locked while not initialised", "mutex unlocked while not locked"}

\* C11: in every sequence of request, data and cancel callbacks the mutex is
\* used inside its life only: no callback locks it while it is not
\* initialised, initialises it twice, or unlocks it without holding it.
C11_MutexUsedInsideItsLife == obs.ub \cap MutexMisuse = {}

\* What the bootloader query can answer when it is run.
QueryAnswers == {"fail", "ok"}

\* C12: a classification of Single (0) or Dual (1) is returned by every later
\* call whatever the query would answer, and is never replaced; a call that
\* yields Unknown leaves is_dual at -1, and the next call takes the answer of
\* the query.
C12_ClassificationCached ==
  /\ [](\A c \in {0, 1}, q \in QueryAnswers : is_dual_boot_system(c, hw_dual, q) = c)
  /\ [](is_dual_boot_system(-1, hw_dual, "fail") = -1 /\ is_dual_boot_system(-1, hw_dual, "ok") = (IF hw_dual THEN 1 ELSE 0))
  /\ [][(is_dual \in {0, 1} => is_dual' = is_dual) /\ (is_dual' # -1 => is_dual' = (IF hw_dual THEN 1 ELSE 0))]_vars

\* A data call on a dual-boot device with on-the-fly updates that took the
\* file-based branch (the query failed), then classified the device Dual
\* in process_swu_package() and left that value cached.
C12_Witness == is_dual = 1 /\ on_the_fly /\ obs.cb = "data" /\ obs.branch = "file" /\ obs.target = CC_FW_TARGET_SWU /\ obs.install_called /\ obs.installer = "update-firmware"

\* C13: while the boot type is Unknown (is_dual is -1 after the call's
\* query failed) no installer has been run by the data call and no restart,
\* direct or through recovery mode, has been started.
C13_UnknownNeverGuessed ==
  is_dual = -1 => ((obs.install_called => obs.installer = "none") /\ reboot \in {"none", "thread"})

\* reset decided to reboot: it created the reboot thread or ran
\* reboot_system() itself.
ResetReboots == obs'.ret \in {"thread", "inline"}

\* C14: a reset that ends a streaming session reboots only if
\* update_successful is set, and a reset that ends a file-based session (SWU
\* file or manifest) always reboots.
C14_ResetDecision ==
  [][Reset => ((sess.branch = "stream" /\ ResetReboots => otf_info.update_successful) /\ (sess.branch = "file" => ResetReboots))]_vars

\* The restarts reboot_system() can start.
RebootKinds == {"direct", "recovery", "recovery_failed"}

\* reboot_system() ran in this step, on the reset's thread or on the reboot
\* thread.
RebootRuns == (Reset \/ RebootThread) /\ reboot' \in RebootKinds

\* C15 as stated: the restart is direct on a single-boot system and goes
\* through recovery mode on a dual-boot system.
C15_AsStated ==
  [][RebootRuns => ((is_dual' = 0 => reboot' = "direct") /\ (is_dual' = 1 => reboot' \in {"recovery", "recovery_failed"}))]_vars

\* C15: the restart is direct on a system classified Dual, and is a
\* recovery-mode restart request on any other (Single, or Unknown).
C15_RebootKind ==
  [][RebootRuns => (reboot' = "direct" <=> is_dual' = 1)]_vars

\* Both kinds of restart: a dual-boot device restarted directly ...
C15_Witness == reboot = "direct" /\ is_dual = 1 /\ conn = "rebooted"

\* ... and a single-boot device sent to recovery mode.
C15_WitnessRecovery == reboot = "recovery" /\ is_dual = 0 /\ conn = "rebooted"

\* C16 as stated: reset never runs reboot_system() itself, whether or not
\* the reboot thread could be created.
C16_AsStated ==
  [][Reset => reboot' \notin RebootKinds]_vars

\* C16: reset runs reboot_system() itself only when pthread_create() failed;
\* when the thread was created reset returns to the connector with the
\* reboot left to that thread.
C16_RebootOffCallerThread ==
  [][Reset => ((reboot' \in RebootKinds => obs'.create = "failed") /\ (obs'.create = "ok" => (reboot' = "thread" /\ conn' = "idle")))]_vars

\* A reset that created the reboot thread and returned, the reboot not yet
\* run.
C16_Witness == obs.cb = "reset" /\ obs.create = "ok" /\ reboot = "thread" /\ conn = "idle"

(***************************************************************************)
(* Manifest parsing and the installer (C17, C18), under SpecMf.             *)
(***************************************************************************)
\* A manifest file that cannot be read, leaves a required key out, or gives
\* a key a value the validation refuses.
DefectiveManifest(m) ==
  \/ ~m.readable
  \/ m.keys # ManifestKeys
  \/ m.size <= 0
  \/ m.fragments <= 0
  \/ m.name = ""
  \/ m.checksum.txt = "empty"
  \/ m.src_dir = ""
  \/ access(m.src_dir) # 0

\* C17: when the manifest file of a final-chunk data call is defective,
\* mf_parse_file() returns an error, mf_generate_fw() ends at the parse step,
\* and no manifest value is handed to the later steps.
C17_ParseRejectsDefective ==
  (obs.gen_called /\ DefectiveManifest(obs.mf)) => (obs.gen.step = "parse" /\ obs.gen.error # 0 /\ ~obs.gen.crash /\ obs.gen.manifest = ZeroManifest)

\* The data call called process_swu_package() and the classification it
\* made there was Dual.
DualInstallDone == obs.cb = "data" /\ obs.install_called /\ obs.install_dual = 1

\* C18: on a dual-boot system process_swu_package() returns an error exactly
\* when the updater's output holds the failure marker, whatever status the
\* updater ends with.
C18_MarkerDecidesResult ==
  DualInstallDone => (obs.ret = CCAPI_FW_DATA_ERROR_INVALID_DATA <=> obs.install_out.run = "marker")

\* The updater ended with a non-zero status, its output held no marker, and
\* the install returned success.
C18_Witness == DualInstallDone /\ obs.install_out = [run |-> "clean", exit |-> 1] /\ obs.ret = CCAPI_FW_DATA_ERROR_NONE

(***************************************************************************)
(* The streaming bridge's flag (C19, C20), under Spec.                      *)
(***************************************************************************)
\* C19: every return of otf_read_image_cb() leaves chunk_ready cleared,
\* whatever the size of the chunk it returns and of the chunk it returned
\* before.
C19_PullClearsReady ==
  [][Pull => ~otf_info'.chunk_ready]_vars

\* C20: a streaming data call made while the previous chunk is still marked
\* ready neither blocks nor fails: it goes on as any other data call, and
\* the chunk the next pull returns is the new one, the earlier chunk being
\* overwritten.
C20_PushOverwrites ==
  [][(DataStream /\ otf_info.chunk_ready) => (/\ obs'.ret \in {CCAPI_FW_DATA_ERROR_NONE, "pending"} /\ conn' \in {"idle", "data_lock"} /\ otf_info'.chunk_ready /\ otf_info'.chunk_size = Len(obs'.data) /\ otf_read_chunk(otf_info') = obs'.data)]_vars

\* A data call that pushed a chunk different from the undrained one and
\* returned success.
C20_Witness == obs.cb = "data" /\ obs.branch = "stream" /\ obs.over /\ obs.sent = 2 /\ obs.ret = CCAPI_FW_DATA_ERROR_NONE /\ obs.data = <<1>> /\ otf_info.chunk_ready /\ otf_info.buffer = <<1, 0>> /\ otf_info.chunk_size = 1

(***************************************************************************)
(* The completion callback and the final-chunk data call (C21 - C24),       *)
(* under Spec.                                                              *)
(***************************************************************************)
\* How many times the session's otf_end_cb() has signalled cv_end.
Signals == Cardinality({i \in DOMAIN end_log : end_log[i] = "signal"})

\* The post-update action was run by the session's otf_end_cb().
PostRun == \E i \in DOMAIN end_log : end_log[i] \in {"post_ok", "post_failed"}

\* C21: an invocation of otf_end_cb() records the status first, runs the
\* post-update action exactly when the status is SUCCESS, leaves EXIT_SUCCESS
\* recorded exactly when the status is SUCCESS and the post-update action
\* succeeded, and signals cv_end once, as its last step before the lock is
\* released, whatever the status.
C21_EndCallback ==
  /\ [](engine \in {"off", "run"} => Signals = 0)
  /\ [](engine = "end2" => (Signals = 0 /\ Head(end_log) = "record" /\ (PostRun <=> end_arg = "SUCCESS")))
  /\ [](engine \in {"end3", "ended"} => (Signals = 1 /\ Head(end_log) = "record" /\ end_log[Len(end_log)] = "signal" /\ (PostRun <=> end_arg = "SUCCESS")))
  /\ [][EndCbStart => (otf_info'.end_status = EXIT_SUCCESS <=> (end_arg' = "SUCCESS" /\ end_log'[Len(end_log')] = "post_ok"))]_vars

\* The callback was given SUCCESS, its post-update action failed, and it
\* has signalled.
C21_Witness == engine = "end3" /\ end_arg = "SUCCESS" /\ end_log = <<"record", "post_failed", "signal">> /\ otf_info.end_status = EXIT_FAILURE

\* The final-chunk data call of the streaming branch returns in this step.
DataStreamReturns == (DataWoken \/ DataPoll) /\ conn' = "idle"

\* C22: the final-chunk data call of the streaming branch returns success
\* only with end_status at EXIT_SUCCESS and update_successful set; it
\* returns CCAPI_FW_DATA_ERROR_INVALID_DATA when it finds end_status at
\* EXIT_FAILURE and when the poll ends at its last iteration.
C22_FinalChunkResult ==
  [][DataStreamReturns => (/\ obs'.ret \in {CCAPI_FW_DATA_ERROR_NONE, CCAPI_FW_DATA_ERROR_INVALID_DATA} /\ (obs'.ret = CCAPI_FW_DATA_ERROR_NONE => (otf_info'.end_status = EXIT_SUCCESS /\ otf_info'.update_successful)) /\ ((DataWoken /\ otf_info.end_status = EXIT_FAILURE) => obs'.ret = CCAPI_FW_DATA_ERROR_INVALID_DATA) /\ ((DataPoll /\ loops >= PollLimit) => obs'.ret = CCAPI_FW_DATA_ERROR_INVALID_DATA))]_vars

\* C23: when the poll loop of the final-chunk data call ends with
\* end_status at EXIT_SUCCESS and update_successful set, the call returns
\* success: a timeout is reported only if the flag is still false.
C23_FlagBeforeLoopEnd ==
  [][(DataPoll /\ conn' = "idle" /\ otf_info.end_status = EXIT_SUCCESS /\ otf_info.update_successful) => obs'.ret = CCAPI_FW_DATA_ERROR_NONE]_vars

\* C24: on the streaming path neither the final-chunk data call nor cancel
\* goes past its blocking wait before the completion callback of the session
\* has signalled the condition variable.
C24_WaitEndsOnSignal ==
  [][(DataWoken \/ CancelWoken) => (engine \in {"end3", "ended"} /\ end_log # <<>> /\ end_log[Len(end_log)] = "signal")]_vars

\* The last callback ran mf_assemble_fw_package().
AssembleCalled == ManifestDone /\ obs.gen.asm_called

RECURSIVE AppendRemove(_, _)
AppendRemove(i, k) == IF i >= k THEN <<>> ELSE <<[op |-> "append", i |-> i], [op |-> "remove", i |-> i]>> \o AppendRemove(i + 1, k)

\* C26: the assembly appends the fragments in index order 0, 1, ..., each
\* removed right after it was appended and before the next one is opened, and
\* stops at the first fragment that fails: the destination holds the
\* contents of the fragments before that one, in order.
C26_FragmentsInOrder ==
  (AssembleCalled /\ obs.gen.opened) =>
    \E k \in 0 .. obs.gen.n_fragments :
      /\ obs.gen.out = Concat(obs.frags0, 0, k)
      /\ \/ k = obs.gen.n_fragments /\ obs.gen.log = AppendRemove(0, k)
         \/ k < obs.gen.n_fragments /\ obs.gen.log = Append(AppendRemove(0, k), [op |-> "fail", i |-> k])

C26_Witness == AssembleCalled /\ obs.gen.n_fragments = 2 /\ obs.gen.log = <<[op |-> "append", i |-> 0], [op |-> "remove", i |-> 0], [op |-> "fail", i |-> 1]>> /\ Len(obs.gen.out) = 1

\* The last callback started the assembly or the install.
Processed == obs.gen_called \/ obs.install_called

\* C27: on the file-based branch assembly and install start only in the data
\* call that carries the last chunk, after the chunk was written and the
\* download was synced and closed; a write, sync or close failure returns an
\* error with neither started; the install has finished when the call
\* returns; and the call that starts them ends the open phase of the
\* session, so they start at most once per session.
C27_ProcessingOnLastChunk ==
  [][/\ Processed' => (obs'.cb = "data" /\ obs'.branch = "file" /\ obs'.last /\ obs'.fp0 = "open" /\ obs'.io = [write |-> 1, close |-> "ok"])
     /\ (obs'.cb = "data" /\ obs'.branch = "file" /\ (obs'.io.write = 0 \/ obs'.io.close \in {"fsync_fails", "fclose_fails"})) => (obs'.ret = CCAPI_FW_DATA_ERROR_INVALID_DATA /\ ~Processed')
     /\ obs'.install_called => obs'.install_out # NoInstall
     /\ (Processed' /\ obs' # obs) => (sess.phase = "open" /\ sess'.phase # "open" /\ fw_fp = "open" /\ fw_fp' = "closed")]_vars

C27_Witness == Processed /\ obs.gen_called /\ obs.install_called /\ obs.target = CC_FW_TARGET_MANIFEST /\ obs.io = [write |-> 1, close |-> "ok"] /\ obs.ret = CCAPI_FW_DATA_ERROR_NONE /\ sess.phase = "complete"

\* A data, cancel or reset callback ran in this step.
LaterCallback == obs' # obs /\ obs'.cb \in {"data", "cancel", "reset"}

\* C28: within a session every data, cancel and reset callback takes the
\* branch (streaming or file-based) of the request callback that opened the
\* session.
C28_BranchStable ==
  [][LaterCallback => obs'.branch = sess.branch]_vars

\* Misuses of the destination handle and of the path buffer.
FileMisuse == {"fw_fp used after fclose", "fwrite on a file that is not open", "fw_downloaded_path used after free", "fw_downloaded_path freed twice"}

\* C29: in every sequence of request, data and cancel callbacks fw_fp is
\* closed at most once and never used after it was closed, and
\* fw_downloaded_path is freed at most once and never used after it was
\* freed.
C29_HandleAndPathUsedOnce ==
  obs.ub \cap FileMisuse = {}

\* The installer was run on a dual-boot system and popen() could not start
\* the updater.
UpdaterNotStarted == obs.install_called /\ obs.install_dual = 1 /\ obs.install_out.run = "popen_fails"

\* C30: on a dual-boot system process_swu_package() returns success only if
\* the updater was started and its output was read to the end; if the
\* updater cannot be started the call returns an error.
C30_InstallNeedsUpdater ==
  /\ UpdaterNotStarted => obs.ret = CCAPI_FW_DATA_ERROR_INVALID_DATA
  /\ (obs.install_called /\ obs.install_dual = 1 /\ obs.ret = CCAPI_FW_DATA_ERROR_NONE) => obs.install_out.run = "clean"

\* The last callback was a cancel on the file-based branch that found the
\* download file open.
FileCancelDone == obs.cb = "cancel" /\ obs.branch = "file" /\ obs.fp0 = "open"

\* C31: a cancel on the file-based branch that finds the download file open
\* closes it, deletes the partial download and frees the path buffer,
\* whatever the outcome of fsync() and fclose().
C31_CancelReleasesDownload ==
  FileCancelDone => (fw_fp = "closed" /\ ~dl_file /\ fw_downloaded_path.st = "freed")

\* A streaming request is accepted in this step.
StreamAccepted == sess.phase = "idle" /\ sess'.phase = "open" /\ sess'.branch = "stream"

\* The request resets the flags and then starts the engine.
ResetAtRequest == [][StreamAccepted => (otf_info' = otf_reset(otf_info) /\ engine' = "run" /\ end_log' = <<>>)]_vars

\* C32: an accepted streaming request leaves chunk_ready false, chunk_size
\* and last_chunk_size 0, end_status EXIT_SUCCESS and update_successful
\* false with the engine newly started, and no flag value of an earlier
\* session shows in the new one: while the session lasts update_successful
\* is set only once its own otf_end_cb(SUCCESS) has run to its end.
C32_SessionStartsClean ==
  /\ ResetAtRequest
  /\ []((sess.branch = "stream" /\ sess.phase \in {"open", "complete"} /\ otf_info.update_successful) => (engine = "ended" /\ end_arg = "SUCCESS"))

\* A streaming session is open or complete.
InStreamSession == sess.branch = "stream" /\ sess.phase \in {"open", "complete"}

\* The flag is set although the recorded end status is EXIT_FAILURE.
FlagOverFailure == InStreamSession /\ otf_info.update_successful /\ otf_info.end_status = EXIT_FAILURE

\* C33: in every state of a streaming session update_successful is true only
\* if the completion callback reported SUCCESS and the recorded end status
\* is EXIT_SUCCESS.
C33_FlagImpliesSuccess ==
  (InStreamSession /\ otf_info.update_successful) => (otf_info.end_status = EXIT_SUCCESS /\ engine \in {"end2", "end3", "ended"} /\ end_arg = "SUCCESS")

\* The installer process_swu_package() goes to for a classification.
InstallerFor(dual) == IF dual = 1 THEN "update-firmware" ELSE "update_firmware"

ResetDone == obs.cb = "reset"

\* C35: firmware_reset_cb() leaves *system_reset at CCAPI_FALSE on every
\* path and in every outcome, so the connector never reboots the device: a
\* restart is started by reboot_system() only.
C35_SystemResetFalse ==
  /\ ResetDone => obs.system_reset = "CCAPI_FALSE"
  /\ reboot \in {"none", "thread"} \cup RebootKinds

C35_Witness == ResetDone /\ obs.ret = "no_reboot" /\ obs.branch = "stream" /\ obs.system_reset = "CCAPI_FALSE" /\ reboot = "none" /\ conn = "idle"

\* The space the package and the uncompressed fragment i take together.
SpaceWithFragment(i) == obs.gen.manifest.fw_total_size + Len(obs.frags0[i].data)

\* C36: mf_generate_fw() creates the destination only if the available
\* space covers the complete package plus one uncompressed fragment of the
\* set.
C36_SpaceForPackageAndFragment ==
  (ManifestDone /\ obs.gen.opened) => \E i \in FragIdx : i < obs.gen.n_fragments /\ obs.avail >= SpaceWithFragment(i)

\* mf_generate_fw() was given a manifest file that cannot be read.
UnreadableParsed == obs.cb = "data" /\ obs.gen_called /\ ~obs.mf.readable

\* A readable manifest file that cfg_parse() rejects for an invalid key.
InvalidKeyFiles == {m \in ManifestFiles : m.readable /\ cfg_parse(m) # "CFG_SUCCESS"}

\* C37: what mf_parse_file() returns for an unreadable manifest file differs
\* from what it returns for any file with an invalid key.
C37_UnreadableDistinct ==
  UnreadableParsed => \A m \in InvalidKeyFiles : mf_parse_file(m) # mf_parse_file(obs.mf)

====
